---- MODULE Spec2Model ----
(***************************************************************************)
(* A model of microfaas/buildah.py: the Container handle with its deferred *)
(* configuration commit (snapshot / diff / `buildah config`), the scoped   *)
(* mount, run / popen, and the Image resolve / pull class methods.         *)
(*                                                                         *)
(* A string is a sequence of tokens, so that the concatenations the code   *)
(* performs (f"{key}={value}", f"{key}-", f"{v}-", "'" + s + "'") are real *)
(* concatenations.  A fixed literal of the code ("--env", "config") is one *)
(* token.  An argument vector is a sequence of strings.                    *)
(***************************************************************************)
EXTENDS Integers, Sequences, FiniteSets, TLC

VARIABLES
    cstate,       \* "uninitialized" | "live" | "removed"
    hasSnapshot,  \* hasattr(self, '_snapshot')
    self,         \* the config attrs of the Container (vars(self) without _id)
    snapshot,     \* self._snapshot
    pc,           \* the await the running coroutine is suspended at, or "idle"
    op,           \* the method that is running (or ran last)
    opts,         \* the caller's keyword arguments of the running method
    trace,        \* the buildah commands issued by op, in order, with their exit
    result,       \* how op ended: "none" | "ok" | the exception that reached the caller
    retval,       \* the value op returned (optional: No is None)
    nassign,      \* number of attribute assignments made so far
    muts,         \* number of attribute assignments since the last synchronization point returned
    dirty,        \* whether a config attr differed from the snapshot when op was called
    hist,         \* the _commit_config calls completed since the last attribute
                  \* assignment (the last two of them): the args each sent
                  \* (<<>> when it sent no command) and the exception it raised
    images,       \* ids of the images in local storage (Image class methods)
    args_in,      \* inputs of the pure functions: <<snapshot, live>>
    args_out      \* the argument list _produce_config_args returned for args_in (optional)

vars == <<cstate, hasSnapshot, self, snapshot, pc, op, opts, trace, result,
          retval, nassign, muts, dirty, hist, images, args_in, args_out>>

(***************************************************************************)
(* Bounds and value universes                                              *)
(***************************************************************************)
MaxAssign == 2

None == "None"
Unset == "unset"

\* An optional value is the set of its values: {} when it is None or absent.
No == {}
Some(v) == {v}
The(o) == CHOOSE v \in o : TRUE

Dict0 == [k \in {} |-> None]

EnvKeys == {<<"A">>, <<"B">>}
EnvVals == {<<"1">>, <<"2">>}
LabelKeys == {<<"L">>}
LabelVals == {<<"1">>, <<"2">>}
VolumePaths == {<<"/v">>, <<"/v", "-">>}
Entrypoints == {<<>>, << <<"/init">> >>}
Workdirs == {<<>>, <<"/w">>}

Maps(K, V) == UNION {[D -> V] : D \in SUBSET K}

Fields == {"environ", "command", "entrypoint", "labels", "volumes", "workdir"}

NoAttrs == [f \in Fields |-> Unset]

ContainerId == <<"c1">>

(***************************************************************************)
(* Pure helpers                                                            *)
(***************************************************************************)

\* The orders in which a `for` loop may iterate over a Python set of str
\* (hash randomisation: the order is not fixed by the program).
RECURSIVE Orders(_)
Orders(S) ==
    IF S = {} THEN {<<>>}
    ELSE UNION {{<<x>> \o r : r \in Orders(S \ {x})} : x \in S}

\* sep.join(seq) on strings
RECURSIVE Join(_, _)
Join(sep, seq) ==
    IF seq = <<>> THEN <<>>
    ELSE IF Len(seq) = 1 THEN seq[1]
    ELSE seq[1] \o sep \o Join(sep, Tail(seq))

\* A mutant of DictDiff: the loop over the common keys is left out
DictDiffKeysOnly(old, new) ==
    <<DOMAIN new \ DOMAIN old, DOMAIN old \ DOMAIN new>>

\* _dict_diff(old, new): <<changed, deleted>>
DictDiff(old, new) ==
    LET oldkeys == DOMAIN old
        newkeys == DOMAIN new
        changed == (newkeys \ oldkeys)
                   \cup {key \in newkeys \cap oldkeys : new[key] # old[key]}
        deleted == oldkeys \ newkeys
    IN <<changed, deleted>>

\* _join_shellwords(seq): " ".join(f"'{s}'" for s in seq)
JoinShellwords(seq) ==
    Join(<<" ">>, [i \in 1..Len(seq) |-> <<"'">> \o seq[i] \o <<"'">>])

\* json.dumps(list of str), for strings that need no escaping
JsonDumps(seq) ==
    <<"[">> \o Join(<<",", " ">>, [i \in 1..Len(seq) |-> <<"\"">> \o seq[i] \o <<"\"">>])
            \o <<"]">>

FlagCmd == <<"--cmd">>
FlagEntrypoint == <<"--entrypoint">>
FlagWorkingdir == <<"--workingdir">>
FlagEnv == <<"--env">>
FlagVolume == <<"--volume">>

\* args += [flag, v] for v in vals
RECURSIVE WithFlag(_, _)
WithFlag(flag, vals) ==
    IF Len(vals) = 0 THEN <<>>
    ELSE <<flag, vals[1]>> \o WithFlag(flag, [i \in 1..(Len(vals) - 1) |-> vals[i + 1]])

\* A mutant of SimpleArgs: the workdir comparison is dropped, so that
\* --workingdir is sent on every call.
SimpleArgsAlwaysWorkdir(me, snap) ==
    (IF me.command # snap.command
     THEN <<FlagCmd, JoinShellwords(me.command)>> ELSE <<>>)
    \o (IF me.entrypoint # snap.entrypoint
        THEN <<FlagEntrypoint, JsonDumps(me.entrypoint)>> ELSE <<>>)
    \o <<FlagWorkingdir, me.workdir>>

\* _produce_config_args, "Simple stuff: command, entrypoint, workdir"
SimpleArgs(me, snap) ==
    (IF me.command # snap.command
     THEN <<FlagCmd, JoinShellwords(me.command)>> ELSE <<>>)
    \o (IF me.entrypoint # snap.entrypoint
        THEN <<FlagEntrypoint, JsonDumps(me.entrypoint)>> ELSE <<>>)
    \o (IF me.workdir # snap.workdir
        THEN <<FlagWorkingdir, me.workdir>> ELSE <<>>)

\* A mutant of EnvArgs: the loop over env_del comes before the one over
\* env_add
EnvArgsDeletionsFirst(me, snap) ==
    LET diff == DictDiff(snap.environ, me.environ)
        env_add == diff[1]
        env_del == diff[2]
    IN {WithFlag(FlagEnv, [i \in 1..Len(ed) |-> ed[i] \o <<"-">>])
        \o WithFlag(FlagEnv, [i \in 1..Len(ea) |-> ea[i] \o <<"=">> \o me.environ[ea[i]]])
        : ea \in Orders(env_add), ed \in Orders(env_del)}

\* _produce_config_args, "Environment": the lists the two loops may append
EnvArgs(me, snap) ==
    LET diff == DictDiff(snap.environ, me.environ)
        env_add == diff[1]
        env_del == diff[2]
    IN {WithFlag(FlagEnv, [i \in 1..Len(ea) |-> ea[i] \o <<"=">> \o me.environ[ea[i]]])
        \o WithFlag(FlagEnv, [i \in 1..Len(ed) |-> ed[i] \o <<"-">>])
        : ea \in Orders(env_add), ed \in Orders(env_del)}

\* _produce_config_args, "Volumes": the lists the two loops may append
VolumeArgs(me, snap) ==
    LET vol_add == me.volumes \ snap.volumes
        vol_del == snap.volumes \ me.volumes
    IN {WithFlag(FlagVolume, va)
        \o WithFlag(FlagVolume, [i \in 1..Len(vd) |-> vd[i] \o <<"-">>])
        : va \in Orders(vol_add), vd \in Orders(vol_del)}

\* Container._produce_config_args: the argument lists the method may return
\* (one per iteration order of the sets it loops over).
ProduceConfigArgs(me, snap) ==
    {SimpleArgs(me, snap) \o e \o v : e \in EnvArgs(me, snap), v \in VolumeArgs(me, snap)}

(***************************************************************************)
(* _buildah_out and the external tool                                      *)
(***************************************************************************)
PIPE == "PIPE"
DEVNULL == "DEVNULL"
\* the returncode of a process that has not exited yet
Pending == 0 - 1

\* _buildah_out(*cmd, **kw) once the process has exited with returncode rc
\* having written procout to its stdout: the exception raised or the value
\* returned (an optional value: No when it is None).
\* opts.setdefault('stdout', PIPE) only fills in a missing key; communicate()
\* yields None for a stream that is not a pipe.
BuildahOut(kw, rc, procout) ==
    LET o == IF "stdout" \in DOMAIN kw THEN kw
             ELSE [k \in DOMAIN kw \cup {"stdout"} |->
                     IF k = "stdout" THEN PIPE ELSE kw[k]]
        stdout == IF o["stdout"] = PIPE THEN Some(procout) ELSE No
    IN IF rc # 0 THEN [exc |-> "CalledProcessError", value |-> No]
       ELSE [exc |-> None, value |-> stdout]

NoKw == Dict0

Command(argv) == [argv |-> argv, rc |-> Pending]

\* the last command of the trace gets its exit code
Exited(tr, rc) == [tr EXCEPT ![Len(tr)].rc = rc]

\* the subcommand of a traced command
Sub(c) == c.argv[1]

ConfigsIn(tr) == {i \in 1..Len(tr) : Sub(tr[i]) = <<"config">>}

(***************************************************************************)
(* Container: construction                                                 *)
(***************************************************************************)
ImageId == <<"img1">>

\* the mounts= argument of Container(image, mounts=...); None is as the empty list
MountSpecs == {<<>>, << <<(<<"/h">>), (<<"/c">>), (<<"ro">>)>> >>}

\* `buildah inspect --type container`: whether info['Config'] is non-empty,
\* and the sub-fields of its 'config' object, each optional: null or absent
\* is No (config.get() does not tell them apart).
Payloads ==
    {[Config |-> FALSE, Env |-> No, Cmd |-> No, Entrypoint |-> No, Labels |-> No,
      Volumes |-> No, WorkingDir |-> No],
     [Config |-> TRUE, Env |-> No, Cmd |-> Some(<<(<<"sh">>)>>), Entrypoint |-> No,
      Labels |-> No, Volumes |-> No, WorkingDir |-> No],
     [Config |-> TRUE, Env |-> Some(<<(<<"A", "=", "1">>)>>), Cmd |-> Some(<<(<<"sh">>)>>),
      Entrypoint |-> No, Labels |-> Some(<<"L">> :> <<"1">>),
      Volumes |-> Some(<<"/v">> :> "{}"), WorkingDir |-> Some(<<"/w">>)]}

\* item.split('=', 1) for an item that holds a '='
SplitEq(item) ==
    LET i == CHOOSE k \in 1..Len(item) :
                 item[k] = "=" /\ \A j \in 1..(k - 1) : item[j] # "="
    IN <<SubSeq(item, 1, i - 1), SubSeq(item, i + 1, Len(item))>>

\* dict(pairs): a later pair replaces an earlier one with the same key
RECURSIVE DictOf(_)
DictOf(pairs) ==
    IF Len(pairs) = 0 THEN Dict0
    ELSE LET init == DictOf(SubSeq(pairs, 1, Len(pairs) - 1))
             last == pairs[Len(pairs)]
         IN [k \in DOMAIN init \cup {last[1]} |->
               IF k = last[1] THEN last[2] ELSE init[k]]

\* config.get(k) or default, config being {} when info['Config'] is empty
GetOr(info, k, default) ==
    IF info.Config /\ info[k] # No THEN The(info[k]) ELSE default

\* Container._init_config, from the attrs on: the config attrs set from info
\* A mutant of InitConfig: the labels of the container are not read
InitConfigNoLabels(info) ==
    [environ |-> LET env == GetOr(info, "Env", <<>>)
                 IN DictOf([i \in 1..Len(env) |-> SplitEq(env[i])]),
     command |-> GetOr(info, "Cmd", <<>>),
     entrypoint |-> GetOr(info, "Entrypoint", <<>>),
     labels |-> Dict0,
     volumes |-> DOMAIN GetOr(info, "Volumes", Dict0),
     workdir |-> GetOr(info, "WorkingDir", <<>>)]

InitConfig(info) ==
    [environ |-> LET env == GetOr(info, "Env", <<>>)
                 IN DictOf([i \in 1..Len(env) |-> SplitEq(env[i])]),
     command |-> GetOr(info, "Cmd", <<>>),
     entrypoint |-> GetOr(info, "Entrypoint", <<>>),
     labels |-> GetOr(info, "Labels", Dict0),
     volumes |-> DOMAIN GetOr(info, "Volumes", Dict0),
     workdir |-> GetOr(info, "WorkingDir", <<>>)]

\* Container.__ainit__: the argv of the `from` command
FromArgv(image, mounts) ==
    <<(<<"from">>)>>
    \o WithFlag(FlagVolume, [i \in 1..Len(mounts) |-> Join(<<":">>, mounts[i])])
    \o <<image>>

InspectArgv == <<(<<"inspect">>), (<<"--type">>), (<<"container">>), ContainerId>>

Idle == pc = "idle"

\* every variable an operation of the Container leaves alone
ImageSide == <<images, args_in, args_out>>

\* Container(image, mounts=...): __ainit__ up to its first await
CreateCall(mounts) ==
    /\ Idle /\ cstate = "uninitialized"
    /\ op' = "create"
    /\ opts' = [mounts |-> mounts]
    /\ trace' = <<Command(FromArgv(ImageId, mounts))>>
    /\ pc' = "from"
    /\ result' = "none" /\ retval' = No
    /\ UNCHANGED <<cstate, hasSnapshot, self, snapshot, nassign, muts, dirty, hist, ImageSide>>

\* __ainit__ resumes after `from`: self._id is set, _init_config() calls
\* inspect(), whose _commit_config() returns at once (no _snapshot yet)
FromReturns(rc) ==
    /\ pc = "from"
    /\ IF BuildahOut(NoKw, rc, ContainerId).exc # None
       THEN /\ trace' = Exited(trace, rc)
            /\ pc' = "idle"
            /\ result' = BuildahOut(NoKw, rc, ContainerId).exc
       ELSE /\ trace' = Exited(trace, rc) \o <<Command(InspectArgv)>>
            /\ pc' = "init_inspect"
            /\ UNCHANGED result
    /\ UNCHANGED <<cstate, hasSnapshot, self, snapshot, op, opts, retval, nassign,
                   muts, dirty, hist, ImageSide>>

\* _init_config resumes after inspect: attrs are parsed, the snapshot is taken
\* (retval keeps the info that inspect() returned to _init_config)
InitInspectReturns(rc, info) ==
    /\ pc = "init_inspect"
    /\ trace' = Exited(trace, rc)
    /\ pc' = "idle"
    /\ IF BuildahOut(NoKw, rc, info).exc # None
       THEN /\ result' = BuildahOut(NoKw, rc, info).exc
            /\ UNCHANGED <<cstate, hasSnapshot, self, snapshot>>
       ELSE /\ result' = "ok"
            /\ cstate' = "live"
            /\ self' = InitConfig(The(BuildahOut(NoKw, rc, info).value))
            /\ snapshot' = self'
            /\ hasSnapshot' = TRUE
    /\ retval' = BuildahOut(NoKw, rc, info).value
    /\ UNCHANGED <<op, opts, nassign, muts, dirty, hist, ImageSide>>

\* A mutant of FromIdOnly: the handle is made by creating a container
FromIdOnlyCreating ==
    /\ Idle /\ cstate = "uninitialized"
    /\ cstate' = "live"
    /\ op' = "from_id_only" /\ opts' = NoKw
    /\ trace' = <<[argv |-> FromArgv(ImageId, <<>>), rc |-> 0]>>
    /\ result' = "ok" /\ retval' = No
    /\ UNCHANGED <<hasSnapshot, self, snapshot, pc, nassign, muts, dirty, hist, ImageSide>>

\* Container._from_id_only(id): _init_config() is called and never awaited,
\* so no attr is set and no snapshot is taken
FromIdOnly ==
    /\ Idle /\ cstate = "uninitialized"
    /\ cstate' = "live"
    /\ op' = "from_id_only" /\ opts' = NoKw /\ trace' = <<>>
    /\ result' = "ok" /\ retval' = No
    /\ UNCHANGED <<hasSnapshot, self, snapshot, pc, nassign, muts, dirty, hist, ImageSide>>

\* container.<field> = value (or an in-place change with the same outcome)
Assign(f, v) ==
    /\ Idle /\ cstate = "live"
    /\ nassign < MaxAssign
    /\ self' = [self EXCEPT ![f] = v]
    /\ nassign' = nassign + 1
    /\ muts' = muts + 1
    /\ hist' = <<>>
    /\ UNCHANGED <<cstate, hasSnapshot, snapshot, pc, op, opts, trace, result,
                   retval, dirty, ImageSide>>

(***************************************************************************)
(* Container: synchronization points (inspect, commit, run, popen)         *)
(***************************************************************************)
SyncOps == {"inspect", "commit", "run", "popen", "popen_with_protocol"}
RunOps == {"run", "popen", "popen_with_protocol"}

RunCmd == <<(<<"echo">>), (<<"hi">>)>>

\* keyword arguments of run / popen: the defaults, and every option given.
\* A volume is a str or a tuple; a mount is a dict, here its items in order.
RunKws ==
    {[user |-> No, volumes |-> No, mounts |-> No, terminal |-> FALSE,
      stdin |-> None, stdout |-> None, stderr |-> None, text |-> None],
     [user |-> Some(<<"u">>),
      volumes |-> Some(<<[str |-> <<"/a", ":", "/b">>],
                         [tuple |-> <<(<<"/h">>), (<<"/c">>)>>]>>),
      mounts |-> Some(<< <<(<<(<<"type">>), (<<"bind">>)>>),
                           (<<(<<"src">>), (<<"/s">>)>>)>> >>),
      terminal |-> TRUE,
      stdin |-> None, stdout |-> PIPE, stderr |-> None, text |-> None]}

KwsOf(o) == IF o \in RunOps THEN RunKws ELSE {NoKw}

\* A mutant of RunArgs: --terminal is appended first
RunArgsTerminalFirst(user, volumes, mounts, terminal) ==
    (IF terminal THEN <<(<<"--terminal">>)>> ELSE <<>>)
    \o (IF user # No THEN <<(<<"--user">>), The(user)>> ELSE <<>>)
    \o (IF volumes # No
        THEN WithFlag(FlagVolume,
                 [i \in 1..Len(The(volumes)) |->
                    IF "str" \in DOMAIN The(volumes)[i] THEN The(volumes)[i].str
                    ELSE Join(<<":">>, The(volumes)[i].tuple)])
        ELSE <<>>)
    \o (IF mounts # No
        THEN WithFlag(<<"--mount">>,
                 [i \in 1..Len(The(mounts)) |->
                    Join(<<",">>, [j \in 1..Len(The(mounts)[i]) |->
                                     The(mounts)[i][j][1] \o <<"=">> \o The(mounts)[i][j][2]])])
        ELSE <<>>)

\* Container._run_args
RunArgs(user, volumes, mounts, terminal) ==
    (IF user # No THEN <<(<<"--user">>), The(user)>> ELSE <<>>)
    \o (IF volumes # No
        THEN WithFlag(FlagVolume,
                 [i \in 1..Len(The(volumes)) |->
                    IF "str" \in DOMAIN The(volumes)[i] THEN The(volumes)[i].str
                    ELSE Join(<<":">>, The(volumes)[i].tuple)])
        ELSE <<>>)
    \o (IF mounts # No
        THEN WithFlag(<<"--mount">>,
                 [i \in 1..Len(The(mounts)) |->
                    Join(<<",">>, [j \in 1..Len(The(mounts)[i]) |->
                                     The(mounts)[i][j][1] \o <<"=">> \o The(mounts)[i][j][2]])])
        ELSE <<>>)
    \o (IF terminal THEN <<(<<"--terminal">>)>> ELSE <<>>)

\* the argv (after 'buildah') of the command each method issues after
\* _commit_config
MainArgv(o, kw) ==
    CASE o = "inspect" -> InspectArgv
      [] o = "commit" -> <<(<<"commit">>), ContainerId>>
      [] o \in RunOps ->
           <<(<<"run">>)>> \o RunArgs(kw.user, kw.volumes, kw.mounts, kw.terminal)
           \o <<(<<"--">>), ContainerId>> \o RunCmd

\* the **opts each method hands to _buildah_out with its own command
MainKw(o, kw) ==
    IF o = "run"
    THEN [stdin |-> kw.stdin, stdout |-> kw.stdout, stderr |-> kw.stderr, text |-> kw.text]
    ELSE NoKw

\* what the external command of each method may write to stdout
MainOutputs(o) ==
    CASE o = "inspect" -> Payloads
      [] o = "commit" -> {ImageId}
      [] o = "run" -> {<<"hi">>}
      [] OTHER -> {}

\* _commit_config up to `if args:`: the args it may hold there
CommitConfigArgs(has, me, snap) ==
    IF ~has THEN {<<>>} ELSE ProduceConfigArgs(me, snap)

\* A mutant of ConfigCommands: the `if args:` test is dropped
ConfigCommandsUnguarded(args) ==
    <<Command(<<(<<"config">>)>> \o args \o <<ContainerId>>)>>

\* A mutant of ConfigCommands: one config command per flag group
ConfigCommandsPerGroup(args) ==
    [i \in 1..(Len(args) \div 2) |->
       Command(<<(<<"config">>), args[2 * i - 1], args[2 * i], ContainerId>>)]

\* _commit_config, `if args: await _buildah_out('config', *args, self._id)`:
\* the commands it issues
ConfigCommands(args) ==
    IF args # <<>> THEN <<Command(<<(<<"config">>)>> \o args \o <<ContainerId>>)>>
    ELSE <<>>

\* the args of a config command
ArgsOf(c) == SubSeq(c.argv, 2, Len(c.argv) - 1)

\* the last two elements of a sequence
Last2(h) == IF Len(h) <= 2 THEN h ELSE SubSeq(h, Len(h) - 1, Len(h))

\* A mutant of SnapshotAfterConfig: the snapshot is taken whatever the exit
SnapshotAnyway(exc, me, snap) == me

\* _commit_config after the await: self._snapshot_config() runs only when
\* _buildah_out did not raise
SnapshotAfterConfig(exc, me, snap) == IF exc = None THEN me ELSE snap

\* the method's own command follows `await self._commit_config()` only when
\* that did not raise
ThenMain(exc, o, kw) == IF exc = None THEN <<Command(MainArgv(o, kw))>> ELSE <<>>

\* inspect / commit / run / popen / popen_with_protocol up to the first await
SyncCall(o, kw) ==
    /\ Idle /\ cstate = "live"
    /\ op' = o /\ opts' = kw
    /\ result' = "none" /\ retval' = No
    /\ dirty' = (hasSnapshot /\ self # snapshot)
    /\ \E args \in CommitConfigArgs(hasSnapshot, self, snapshot) :
         IF ConfigCommands(args) # <<>>
         THEN trace' = ConfigCommands(args) /\ pc' = "config" /\ UNCHANGED hist
         ELSE /\ trace' = ThenMain(None, o, kw) /\ pc' = "main"
              /\ hist' = Last2(hist \o <<[args |-> <<>>, exc |-> None]>>)
    /\ UNCHANGED <<cstate, hasSnapshot, self, snapshot, nassign, muts, ImageSide>>

\* _commit_config resumes after `buildah config` exited with rc
ConfigReturns(rc) ==
    /\ pc = "config"
    /\ LET r == BuildahOut(NoKw, rc, <<>>)
           next == ThenMain(r.exc, op, opts)
       IN /\ snapshot' = SnapshotAfterConfig(r.exc, self, snapshot)
          /\ trace' = Exited(trace, rc) \o next
          /\ hist' = Last2(hist \o <<[args |-> ArgsOf(trace[Len(trace)]), exc |-> r.exc]>>)
          /\ IF next = <<>>
             THEN pc' = "idle" /\ result' = r.exc /\ muts' = 0
             ELSE pc' = "main" /\ UNCHANGED <<result, muts>>
    /\ UNCHANGED <<cstate, hasSnapshot, self, op, opts, retval, nassign, dirty, ImageSide>>

\* inspect / commit / run resume after their own command exited with rc
MainReturns(rc, out) ==
    /\ pc = "main" /\ op \in {"inspect", "commit", "run"}
    /\ out \in MainOutputs(op)
    /\ LET r == BuildahOut(MainKw(op, opts), rc, out)
       IN /\ result' = IF r.exc # None THEN r.exc ELSE "ok"
          /\ retval' = r.value
    /\ trace' = Exited(trace, rc)
    /\ pc' = "idle"
    /\ muts' = 0
    /\ UNCHANGED <<cstate, hasSnapshot, self, snapshot, op, opts, nassign, dirty, hist,
                   ImageSide>>

\* popen / popen_with_protocol return the spawned process without waiting
\* for its exit
PopenReturns ==
    /\ pc = "main" /\ op \in {"popen", "popen_with_protocol"}
    /\ result' = "ok"
    /\ retval' = Some("Process")
    /\ pc' = "idle"
    /\ muts' = 0
    /\ UNCHANGED <<cstate, hasSnapshot, self, snapshot, op, opts, trace, nassign,
                   dirty, hist, ImageSide>>

(***************************************************************************)
(* Container: mount scope, copy_in, copy_out, removal                      *)
(***************************************************************************)
MountPath == <<"/mnt">>

\* how the body of `async with container.mount()` is left
Exits == {"return", "raise", "cancel"}

ExitError(how) == IF how = "raise" THEN "BodyError" ELSE "CancelledError"

\* Container.mount after its `yield`: the generator is resumed when the body
\* returns and issues umount; an exception of the body (or a cancellation)
\* is thrown into the generator at the yield, which no try statement
\* encloses, so the generator ends there
MountExit(how) ==
    IF how = "return" THEN <<Command(<<(<<"umount">>), ContainerId>>)>> ELSE <<>>

\* `async with container.mount()` (op "mount") or copy_out, whose body is the
\* copy in the executor (op "copy_out"): up to the await of `buildah mount`
MountCall(o) ==
    /\ Idle /\ cstate = "live"
    /\ o \in {"mount", "copy_out"}
    /\ op' = o /\ opts' = NoKw
    /\ trace' = <<Command(<<(<<"mount">>), ContainerId>>)>>
    /\ pc' = "mount"
    /\ result' = "none" /\ retval' = No
    /\ UNCHANGED <<cstate, hasSnapshot, self, snapshot, nassign, muts, dirty, hist, ImageSide>>

\* `buildah mount` exited: the generator yields the path, the body starts
MountReturns(rc) ==
    /\ pc = "mount"
    /\ trace' = Exited(trace, rc)
    /\ LET r == BuildahOut(NoKw, rc, MountPath)
       IN IF r.exc # None
          THEN pc' = "idle" /\ result' = r.exc /\ UNCHANGED retval
          ELSE pc' = "body" /\ retval' = r.value /\ UNCHANGED result
    /\ UNCHANGED <<cstate, hasSnapshot, self, snapshot, op, opts, nassign, muts,
                   dirty, hist, ImageSide>>

\* the body of the scope is left
BodyExits(how) ==
    /\ pc = "body"
    /\ trace' = trace \o MountExit(how)
    /\ IF MountExit(how) # <<>>
       THEN pc' = "umount" /\ result' = IF how = "return" THEN "none" ELSE ExitError(how)
       ELSE pc' = "idle" /\ result' = ExitError(how)
    /\ UNCHANGED <<cstate, hasSnapshot, self, snapshot, op, opts, retval, nassign,
                   muts, dirty, hist, ImageSide>>

\* `buildah umount` exited
UmountReturns(rc) ==
    /\ pc = "umount"
    /\ trace' = Exited(trace, rc)
    /\ pc' = "idle"
    /\ result' = IF result # "none" THEN result
                 ELSE IF BuildahOut(NoKw, rc, <<>>).exc # None
                      THEN BuildahOut(NoKw, rc, <<>>).exc
                      ELSE "ok"
    /\ UNCHANGED <<cstate, hasSnapshot, self, snapshot, op, opts, retval, nassign,
                   muts, dirty, hist, ImageSide>>

\* copy_in(src, dst) and __aexit__: one command, no _commit_config
\* A mutant of SimpleArgv: __aexit__ unmounts instead of removing
SimpleArgvUmount(o) ==
    CASE o = "copy_in" -> <<(<<"copy">>), ContainerId, (<<"src">>), (<<"/dst">>)>>
      [] o = "aexit" -> <<(<<"umount">>), ContainerId>>

SimpleArgv(o) ==
    CASE o = "copy_in" -> <<(<<"copy">>), ContainerId, (<<"src">>), (<<"/dst">>)>>
      [] o = "aexit" -> <<(<<"rm">>), ContainerId>>

SimpleKw(o) == IF o = "aexit" THEN [stdout |-> DEVNULL] ELSE NoKw

\* what the caller passes: __aexit__ gets the exception that ended the body
\* of `async with`, None when the body ended normally, and ignores it
SimpleOpts(o) ==
    IF o = "aexit" THEN {[exc_type |-> None], [exc_type |-> "Exception"]} ELSE {NoKw}

SimpleCall(o) ==
    /\ Idle /\ cstate = "live"
    /\ o \in {"copy_in", "aexit"}
    /\ op' = o /\ opts' \in SimpleOpts(o)
    /\ trace' = <<Command(SimpleArgv(o))>>
    /\ pc' = "simple"
    /\ result' = "none" /\ retval' = No
    /\ UNCHANGED <<cstate, hasSnapshot, self, snapshot, nassign, muts, dirty, hist, ImageSide>>

SimpleReturns(rc) ==
    /\ pc = "simple"
    /\ trace' = Exited(trace, rc)
    /\ pc' = "idle"
    /\ LET r == BuildahOut(SimpleKw(op), rc, <<>>)
       IN /\ result' = IF r.exc # None THEN r.exc ELSE "ok"
          /\ cstate' = IF op = "aexit" /\ rc = 0 THEN "removed" ELSE cstate
    /\ UNCHANGED <<hasSnapshot, self, snapshot, op, opts, retval, nassign, muts,
                   dirty, hist, ImageSide>>

(***************************************************************************)
(* The Container specification                                             *)
(***************************************************************************)
\* the values the owner assigns to each attr
AssignValues(f) ==
    CASE f = "environ" -> {Dict0, (<<"A">> :> <<"1">>),
                           (<<"A">> :> <<"2">>) @@ (<<"B">> :> <<"1">>)}
      [] f = "command" -> {<<>>, <<(<<"sh">>)>>}
      [] f = "entrypoint" -> Entrypoints
      [] f = "labels" -> {Dict0, (<<"L">> :> <<"1">>)}
      [] f = "volumes" -> {{}, {<<"/v">>}}
      [] f = "workdir" -> Workdirs

ExitCodes == {0, 1}

Init ==
    /\ cstate = "uninitialized"
    /\ hasSnapshot = FALSE
    /\ self = NoAttrs
    /\ snapshot = NoAttrs
    /\ pc = "idle"
    /\ op = "none" /\ opts = NoKw /\ trace = <<>>
    /\ result = "none" /\ retval = No
    /\ nassign = 0 /\ muts = 0 /\ dirty = FALSE /\ hist = <<>>
    /\ images = {} /\ args_in = <<>> /\ args_out = No

Next ==
    \/ \E m \in MountSpecs : CreateCall(m)
    \/ \E rc \in ExitCodes : FromReturns(rc)
    \/ \E rc \in ExitCodes, info \in Payloads : InitInspectReturns(rc, info)
    \/ FromIdOnly
    \/ \E f \in Fields : \E v \in AssignValues(f) : Assign(f, v)
    \/ \E o \in SyncOps : \E kw \in KwsOf(o) : SyncCall(o, kw)
    \/ \E rc \in ExitCodes : ConfigReturns(rc)
    \/ \E rc \in ExitCodes : \E out \in MainOutputs(op) : MainReturns(rc, out)
    \/ PopenReturns
    \/ \E o \in {"mount", "copy_out"} : MountCall(o)
    \/ \E rc \in ExitCodes : MountReturns(rc)
    \/ \E how \in Exits : BodyExits(how)
    \/ \E rc \in ExitCodes : UmountReturns(rc)
    \/ \E o \in {"copy_in", "aexit"} : SimpleCall(o)
    \/ \E rc \in ExitCodes : SimpleReturns(rc)

Spec == Init /\ [][Next]_vars

(***************************************************************************)
(* Properties of the Container specification                               *)
(***************************************************************************)
\* the flag groups of an argument list, as a set of <<flag, value>>
Groups(args) == {<<args[2 * i - 1], args[2 * i]>> : i \in 1..(Len(args) \div 2)}

IsConfig(c) == Sub(c) = <<"config">>

\* a synchronization point of an initialized Container whose _commit_config
\* has returned without raising: its own command has been issued
Reconciled == hasSnapshot /\ op \in SyncOps /\ pc = "main"

\* C1 (as claimed): once _commit_config has returned without error on an
\* initialized Container, the snapshot equals the live config attrs in every
\* tracked field, labels included.
C1_SnapshotEqualsLive == Reconciled => snapshot = self

\* C1, the part the code keeps: all tracked fields but labels are equal.
C1_SnapshotEqualsLiveButLabels ==
    Reconciled => \A f \in Fields \ {"labels"} : snapshot[f] = self[f]

\* C2: when `buildah config` fails, the caller gets CalledProcessError, the
\* method's own command is not issued, the snapshot stays as it was, and
\* the next _commit_config with no assignment in between sends a config
\* command with the same flag groups.
C2_FailedConfigResent ==
    /\ [][(pc = "config" /\ pc' = "idle")
            => /\ result' = "CalledProcessError"
               /\ snapshot' = snapshot
               /\ Len(trace') = Len(trace)
               /\ trace'[Len(trace')].rc # 0]_vars
    /\ [][(pc = "config" /\ trace'[Len(trace)].rc # 0)
            => pc' = "idle" /\ snapshot' = snapshot]_vars
    /\ [](Len(hist) = 2 /\ hist[1].exc # None
            => hist[2].args # <<>> /\ Groups(hist[2].args) = Groups(hist[1].args))

\* a failed config command was sent again by the next synchronization point
C2_Witness ==
    /\ Len(hist) = 2 /\ hist[1].exc # None /\ hist[2].exc = None
    /\ Len(hist[1].args) >= 4
    /\ pc = "main"

\* the number of config commands two consecutive _commit_config calls sent
SentByLastTwo ==
    (IF hist[1].args # <<>> THEN 1 ELSE 0) + (IF hist[2].args # <<>> THEN 1 ELSE 0)

\* C3 (as claimed): no config command is sent when no tracked field differs
\* from the snapshot, and two consecutive _commit_config calls with no
\* assignment in between send at most one config command.
C3_AtMostOneUpdate ==
    /\ (pc = "config" /\ hasSnapshot) => self # snapshot
    /\ Len(hist) = 2 => SentByLastTwo <= 1

\* C3 (amended): the same, for two consecutive calls the first of which
\* returned without error: the second sends nothing, and no config command
\* is in flight right after a successful _commit_config.
C3_AtMostOneUpdateAfterSuccess ==
    /\ (pc = "config" /\ hasSnapshot) => self # snapshot
    /\ (Len(hist) = 2 /\ hist[1].exc = None) => hist[2].args = <<>>
    /\ (pc = "config" /\ Len(hist) >= 1) => hist[Len(hist)].exc # None

\* a run right after a synchronization point that sent a config command
\* successfully, with no assignment in between: only the run command
C3_Witness ==
    /\ Len(hist) = 2 /\ hist[1].exc = None /\ hist[1].args # <<>>
    /\ op = "run" /\ pc = "main" /\ Len(trace) = 1

\* C4 (as claimed): at a synchronization point that found pending changes,
\* the method's own command is issued only after a config command that
\* exited 0, and never after one that failed.
C4_UpdateBeforeOwnCommand ==
    (op \in SyncOps /\ dirty)
        => /\ (\E i \in 1..Len(trace) : ~IsConfig(trace[i]))
                => Len(trace) = 2 /\ IsConfig(trace[1]) /\ trace[1].rc = 0
           /\ \A i \in 1..Len(trace) :
                (IsConfig(trace[i]) /\ trace[i].rc \notin {0, Pending}) => i = Len(trace)

\* C4, the part the code keeps: a config command is the first command of its
\* synchronization point, and the method's own command follows it only once
\* it has exited 0.
C4_SentUpdateBeforeOwnCommand ==
    (op \in SyncOps /\ \E i \in 1..Len(trace) : IsConfig(trace[i]))
        => /\ IsConfig(trace[1])
           /\ Len(trace) = 2 => (trace[1].rc = 0 /\ ~IsConfig(trace[2]))
           /\ Len(trace) <= 2

\* C5: an attribute assignment issues no command, and a synchronization
\* point issues at most one config command however many assignments preceded
C5_DeferredSingleUpdate ==
    [][/\ nassign' # nassign => (trace' = trace /\ pc' = pc)
       /\ op' \in SyncOps => Cardinality(ConfigsIn(trace')) <= 1]_vars

\* two assignments to two fields, then one config command carrying both
C5_Witness ==
    /\ op \in SyncOps /\ pc = "main" /\ muts >= 2
    /\ Cardinality(ConfigsIn(trace)) = 1
    /\ Len(ArgsOf(trace[1])) >= 4

HasSub(tr, sub) == \E i \in 1..Len(tr) : Sub(tr[i]) = sub

\* C6 (as claimed): once the mount scope (or copy_out) is over, a mount
\* command that exited 0 has been followed by an umount command
C6_UmountOnEveryExit ==
    (op \in {"mount", "copy_out"} /\ pc = "idle" /\ Len(trace) >= 1 /\ trace[1].rc = 0)
        => HasSub(trace, <<"umount">>)

\* C7 (as claimed): run() called without stdout= returns what the command
\* wrote to its stdout
C7_RunReturnsStdout ==
    (op = "run" /\ pc = "idle" /\ result = "ok" /\ opts.stdout = None)
        => retval = Some(<<"hi">>)

(***************************************************************************)
(* Image: list, _resolve, pull, add_tag, inspect, __aexit__                *)
(***************************************************************************)
ImageIds == {<<"abc123">>, <<"def456">>}
ImageNames == {<<"alpine">>, <<"nonexistent:tag">>}

\* the names bound in the module the code calls `subprocess`
\* (`from asyncio import subprocess`): asyncio.subprocess binds PIPE, STDOUT,
\* DEVNULL, its classes and functions, and no CalledProcessError
SubprocessNames ==
    {"PIPE", "STDOUT", "DEVNULL", "SubprocessStreamProtocol", "Process",
     "create_subprocess_shell", "create_subprocess_exec"}

\* Image.list(...) is an `async def` holding a `yield`: the call returns an
\* async generator and runs none of its body
ImageListObject == [kind |-> "async_generator"]

\* iter(x), as `for img in x` performs it
Iter(x) == IF x.kind = "async_generator" THEN "TypeError" ELSE None

\* _resolve, `any(img['id'] == id for img in cls.list())`: the generator
\* expression calls iter() on cls.list() when it is created
ResolveLookup(id, local) ==
    IF Iter(ImageListObject) # None
    THEN [exc |-> Iter(ImageListObject), found |-> FALSE]
    ELSE [exc |-> None, found |-> id \in local]

\* `try: await _buildah_out('pull', ...)` with
\* `except subprocess.CalledProcessError as exc: raise ImageNotFoundError`:
\* the exception that leaves the try statement when _buildah_out raised exc.
\* The except clause looks its class up when an exception arrives.
PullExcept(exc) ==
    IF exc = None THEN None
    ELSE IF "CalledProcessError" \notin SubprocessNames THEN "AttributeError"
    ELSE IF exc = "CalledProcessError" THEN "ImageNotFoundError"
    ELSE exc

PullArgv(o, ident) ==
    IF o = "resolve" THEN <<(<<"pull">>), (<<"--quiet">>), ident>>
    ELSE <<(<<"pull">>), ident>>

PullKw(o) == IF o = "resolve" THEN [stderr |-> DEVNULL] ELSE NoKw

ContainerSide ==
    <<cstate, hasSnapshot, self, snapshot, nassign, muts, dirty, hist, args_in, args_out>>

\* Image(ident) -> __ainit__ -> _resolve(ident), up to its first await
ResolveCall(ident) ==
    /\ Idle
    /\ op' = "resolve" /\ opts' = [ident |-> ident]
    /\ LET r == ResolveLookup(ident, images)
       IN IF r.exc # None
          THEN /\ trace' = <<>> /\ pc' = "idle"
               /\ result' = r.exc /\ retval' = No
          ELSE IF r.found
          THEN /\ trace' = <<>> /\ pc' = "idle"
               /\ result' = "ok" /\ retval' = Some(ident)
          ELSE /\ trace' = <<Command(PullArgv("resolve", ident))>> /\ pc' = "pull"
               /\ result' = "none" /\ retval' = No
    /\ UNCHANGED <<images, ContainerSide>>

\* Image.pull(name), up to its await
PullCall(name) ==
    /\ Idle
    /\ op' = "pull" /\ opts' = [ident |-> name]
    /\ trace' = <<Command(PullArgv("pull", name))>> /\ pc' = "pull"
    /\ result' = "none" /\ retval' = No
    /\ UNCHANGED <<images, ContainerSide>>

\* `buildah pull` exited with rc; on success it printed the id of the image,
\* which is in local storage from then on
PullReturns(rc, id) ==
    /\ pc = "pull"
    /\ trace' = Exited(trace, rc)
    /\ pc' = "idle"
    /\ LET r == BuildahOut(PullKw(op), rc, id)
       IN /\ result' = IF r.exc # None THEN PullExcept(r.exc) ELSE "ok"
          /\ retval' = r.value
    /\ images' = IF rc = 0 THEN images \cup {id} ELSE images
    /\ UNCHANGED <<op, opts, ContainerSide>>

\* Image.list: cmd = ['images', '--json'] (+ '--all') (+ name)
ImagesArgv(name, all) ==
    <<(<<"images">>), (<<"--json">>)>>
    \o (IF all THEN <<(<<"--all">>)>> ELSE <<>>)
    \o (IF name # No THEN <<The(name)>> ELSE <<>>)

\* `async for img in Image.list(name, all=all)`: the body of list starts
ImageListCall(name, all) ==
    /\ Idle
    /\ op' = "list" /\ opts' = [name |-> name, all |-> all]
    /\ trace' = <<Command(ImagesArgv(name, all))>> /\ pc' = "images"
    /\ result' = "none" /\ retval' = No
    /\ UNCHANGED <<images, ContainerSide>>

\* `buildah images --json` exited: the items are yielded one by one
ImageListReturns(rc) ==
    /\ pc = "images"
    /\ trace' = Exited(trace, rc)
    /\ pc' = "idle"
    /\ LET r == BuildahOut(NoKw, rc, images)
       IN /\ result' = IF r.exc # None THEN r.exc ELSE "ok"
          /\ retval' = r.value
    /\ UNCHANGED <<op, opts, images, ContainerSide>>

\* add_tag, inspect and __aexit__ of an Image handle: one command each
ImageArgv(o, id) ==
    CASE o = "add_tag" -> <<(<<"tag">>), id, (<<"latest">>)>>
      [] o = "image_inspect" -> <<(<<"inspect">>), (<<"--type">>), (<<"image">>), id>>
      [] o = "image_aexit" -> <<(<<"rmi">>), id>>

ImageOps == {"add_tag", "image_inspect", "image_aexit"}

ImageKw(o) == IF o = "image_aexit" THEN [stdout |-> DEVNULL] ELSE NoKw

ImageCall(o, id) ==
    /\ Idle
    /\ op' = o /\ opts' = [ident |-> id]
    /\ trace' = <<Command(ImageArgv(o, id))>> /\ pc' = "image"
    /\ result' = "none" /\ retval' = No
    /\ UNCHANGED <<images, ContainerSide>>

ImageReturns(rc) ==
    /\ pc = "image"
    /\ trace' = Exited(trace, rc)
    /\ pc' = "idle"
    /\ LET r == BuildahOut(ImageKw(op), rc, opts.ident)
       IN /\ result' = IF r.exc # None THEN r.exc ELSE "ok"
          /\ retval' = r.value
    /\ images' = IF op = "image_aexit" /\ rc = 0 THEN images \ {opts.ident} ELSE images
    /\ UNCHANGED <<op, opts, ContainerSide>>

InitImage ==
    /\ cstate = "uninitialized"
    /\ hasSnapshot = FALSE
    /\ self = NoAttrs
    /\ snapshot = NoAttrs
    /\ pc = "idle"
    /\ op = "none" /\ opts = NoKw /\ trace = <<>>
    /\ result = "none" /\ retval = No
    /\ nassign = 0 /\ muts = 0 /\ dirty = FALSE /\ hist = <<>>
    /\ images \in SUBSET ImageIds
    /\ args_in = <<>> /\ args_out = No

NextImage ==
    \/ \E ident \in ImageIds \cup ImageNames : ResolveCall(ident)
    \/ \E name \in ImageIds \cup ImageNames : PullCall(name)
    \/ \E rc \in ExitCodes, id \in ImageIds : PullReturns(rc, id)
    \/ \E name \in {No} \cup {Some(n) : n \in ImageNames}, all \in BOOLEAN :
         ImageListCall(name, all)
    \/ \E rc \in ExitCodes : ImageListReturns(rc)
    \/ \E o \in ImageOps, id \in images : ImageCall(o, id)
    \/ \E rc \in ExitCodes : ImageReturns(rc)

SpecImage == InitImage /\ [][NextImage]_vars

\* C8 (as claimed): _resolve of an identifier that is the id of a local image
\* returns the identifier and issues no pull
C8_ResolveLocalNoPull ==
    (op = "resolve" /\ pc = "idle" /\ opts.ident \in images)
        => result = "ok" /\ retval = Some(opts.ident) /\ ~HasSub(trace, <<"pull">>)

\* C9 (as claimed): a pull command that exits nonzero makes pull and _resolve
\* fail with ImageNotFoundError
C9_PullFailureIsImageNotFound ==
    (op \in {"pull", "resolve"} /\ pc = "idle"
       /\ \E i \in 1..Len(trace) : Sub(trace[i]) = <<"pull">> /\ trace[i].rc \notin {0, Pending})
        => result = "ImageNotFoundError"

(***************************************************************************)
(* _produce_config_args as a function of the snapshot and the live attrs   *)
(***************************************************************************)
\* the snapshots and live configs the function is applied to
ArgConfigs ==
    [environ : Maps(EnvKeys, EnvVals), command : {<<>>, <<(<<"sh">>), (<<"-c">>)>>},
     entrypoint : Entrypoints, labels : {Dict0, (<<"L">> :> <<"1">>)},
     volumes : SUBSET VolumePaths, workdir : Workdirs]

InitArgs ==
    /\ cstate = "live"
    /\ hasSnapshot = TRUE
    /\ args_in \in ArgConfigs \X ArgConfigs
    /\ snapshot = args_in[1]
    /\ self = args_in[2]
    /\ pc = "idle"
    /\ op = "none" /\ opts = NoKw /\ trace = <<>>
    /\ result = "none" /\ retval = No
    /\ nassign = 0 /\ muts = 0 /\ dirty = FALSE /\ hist = <<>>
    /\ images = {}
    /\ args_out = No

\* args = self._produce_config_args()
Produce ==
    /\ args_out = No /\ op = "none"
    /\ \E args \in ProduceConfigArgs(self, snapshot) : args_out' = Some(args)
    /\ UNCHANGED <<cstate, hasSnapshot, self, snapshot, pc, op, opts, trace, result,
                   retval, nassign, muts, dirty, hist, images, args_in>>

\* _dict_diff(self._snapshot['environ'], self.environ)
Diff ==
    /\ args_out = No /\ op = "none"
    /\ op' = "dict_diff"
    /\ retval' = Some(DictDiff(snapshot.environ, self.environ))
    /\ UNCHANGED <<cstate, hasSnapshot, self, snapshot, pc, opts, trace, result,
                   nassign, muts, dirty, hist, images, args_in, args_out>>

NextArgs == Produce \/ Diff

SpecArgs == InitArgs /\ [][NextArgs]_vars

\* the fields _produce_config_args has a flag for
FlagOf(f) ==
    CASE f = "command" -> FlagCmd
      [] f = "entrypoint" -> FlagEntrypoint
      [] f = "workdir" -> FlagWorkingdir
      [] f = "environ" -> FlagEnv
      [] f = "volumes" -> FlagVolume

HasFlag(args, flag) == \E g \in Groups(args) : g[1] = flag

\* C10: the list _produce_config_args returns holds no flag group of a field
\* whose live value equals its snapshot value, and is empty when no field
\* differs from the snapshot
C10_Minimality ==
    args_out # No =>
        /\ \A f \in Fields \ {"labels"} :
             self[f] = snapshot[f] => ~HasFlag(The(args_out), FlagOf(f))
        /\ self = snapshot => The(args_out) = <<>>

\* a list that carries the environment change and nothing for the command,
\* which is as in the snapshot
C10_Witness ==
    /\ args_out # No
    /\ self.command = snapshot.command /\ self.workdir = snapshot.workdir
    /\ self.environ # snapshot.environ
    /\ HasFlag(The(args_out), FlagEnv)
    /\ Len(The(args_out)) = 2

\* the keys of two dicts that map them to the same value
Unchanged(old, new) == {k \in DOMAIN old \cap DOMAIN new : old[k] = new[k]}

\* C11: the two sets _dict_diff(A, B) returns are disjoint, make up
\* keys(A) \cup keys(B) together with the unchanged keys, are empty when
\* A = B; a key is added-or-changed iff it is only in B or in both with
\* different values, and deleted iff it is only in A
C11_DiffCorrect ==
    op = "dict_diff" =>
        LET old == snapshot.environ
            new == self.environ
            changed == The(retval)[1]
            deleted == The(retval)[2]
        IN /\ changed \cap deleted = {}
           /\ changed \cup deleted \cup Unchanged(old, new) = DOMAIN old \cup DOMAIN new
           /\ old = new => (changed = {} /\ deleted = {})
           /\ \A k \in EnvKeys :
                /\ k \in changed <=>
                     (k \in DOMAIN new /\ (k \notin DOMAIN old \/ old[k] # new[k]))
                /\ k \in deleted <=> (k \in DOMAIN old /\ k \notin DOMAIN new)

\* a diff with a key whose value changed and a key that was deleted
C11_Witness ==
    /\ op = "dict_diff"
    /\ \E k \in The(retval)[1] : k \in DOMAIN snapshot.environ
    /\ The(retval)[2] # {}

\* C12: leaving `async with container`, normally or with an exception,
\* issues exactly one `buildah rm <id>` and no `buildah config`, pending
\* changes of the config attrs or not
C12_ExitRemovesOnce ==
    op = "aexit" => trace \in {<<[argv |-> <<(<<"rm">>), ContainerId>>, rc |-> r]>> :
                                 r \in ExitCodes \cup {Pending}}

\* the scope was left with an exception while changes were pending, and rm
\* has exited
C12_Witness ==
    /\ op = "aexit" /\ pc = "idle"
    /\ opts.exc_type = "Exception"
    /\ hasSnapshot /\ \E f \in Fields \ {"labels"} : self[f] # snapshot[f]

\* a command of the current operation has exited nonzero
SomeCommandFailed == \E i \in 1..Len(trace) : trace[i].rc \notin {0, Pending}

\* C13 (as claimed): once an operation has returned to its caller after one
\* of its commands exited nonzero, the caller has got ImageNotFoundError
\* from pull and _resolve and CalledProcessError from every other operation
C13_FailureReachesCaller ==
    (pc = "idle" /\ SomeCommandFailed)
        => result = IF op \in {"pull", "resolve"} THEN "ImageNotFoundError"
                    ELSE "CalledProcessError"

\* C13, the part the code keeps: the caller gets some exception, never a
\* normal return
C13_FailureIsNotSuccess ==
    (pc = "idle" /\ SomeCommandFailed) => result \notin {"ok", "none"}

\* one group <<flag, items[i]>> per item, in the order of items
GroupsOf(flag, items) ==
    [i \in 1..(2 * Len(items)) |-> IF i % 2 = 1 THEN flag ELSE items[(i + 1) \div 2]]

\* the group of a field that has one flag: present when the field changed
GroupIf(changed, flag, value) == IF changed THEN <<flag, value>> ELSE <<>>

\* C14: the list _produce_config_args returns is the concatenation, in this
\* order, of the --cmd, --entrypoint and --workingdir groups of the fields
\* that changed, one `--env KEY=VALUE` per added or changed key, one
\* `--env KEY-` per deleted key, one `--volume PATH` per added volume and one
\* `--volume PATH-` per removed volume (the keys of each kind in some order).
\* Snapshot env {} and live {A: 1} with nothing else changed give
\* [--env, A=1]; snapshot volumes {/v} and live {} give [--volume, /v-].
C14_ArgsInFixedOrder ==
    args_out # No =>
        LET old == snapshot
            new == self
            env_add == {k \in DOMAIN new.environ :
                          k \notin DOMAIN old.environ \/ old.environ[k] # new.environ[k]}
            env_del == DOMAIN old.environ \ DOMAIN new.environ
            vol_add == new.volumes \ old.volumes
            vol_del == old.volumes \ new.volumes
            same(fs) == \A f \in fs : old[f] = new[f]
        IN /\ \E ea \in Orders(env_add), ed \in Orders(env_del),
                 va \in Orders(vol_add), vd \in Orders(vol_del) :
                The(args_out) =
                    GroupIf(new.command # old.command, <<"--cmd">>,
                            JoinShellwords(new.command))
                    \o GroupIf(new.entrypoint # old.entrypoint, <<"--entrypoint">>,
                               JsonDumps(new.entrypoint))
                    \o GroupIf(new.workdir # old.workdir, <<"--workingdir">>, new.workdir)
                    \o GroupsOf(<<"--env">>,
                           [i \in 1..Len(ea) |-> ea[i] \o <<"=">> \o new.environ[ea[i]]])
                    \o GroupsOf(<<"--env">>, [i \in 1..Len(ed) |-> ed[i] \o <<"-">>])
                    \o GroupsOf(<<"--volume">>, va)
                    \o GroupsOf(<<"--volume">>, [i \in 1..Len(vd) |-> vd[i] \o <<"-">>])
           /\ (old.environ = Dict0 /\ new.environ = (<<"A">> :> <<"1">>)
                 /\ same(Fields \ {"environ"}))
                => The(args_out) = <<(<<"--env">>), (<<"A", "=", "1">>)>>
           /\ (old.volumes = {<<"/v">>} /\ new.volumes = {}
                 /\ same(Fields \ {"volumes"}))
                => The(args_out) = <<(<<"--volume">>), (<<"/v", "-">>)>>

\* a list with a group of each of the seven kinds
C14_Witness ==
    /\ args_out # No
    /\ Len(The(args_out)) = 14
    /\ DOMAIN snapshot.environ \ DOMAIN self.environ # {}
    /\ DOMAIN self.environ \ DOMAIN snapshot.environ # {}
    /\ snapshot.volumes \ self.volumes # {}
    /\ self.volumes \ snapshot.volumes # {}

\* C15: _from_id_only issues no `buildah from`; a live handle that has no
\* snapshot gets none from any operation, and inspect, commit and run (and
\* popen) on it issue no `buildah config`, whatever attrs were assigned
C15_NoSnapshotNoUpdate ==
    /\ [](op = "from_id_only" => trace = <<>>)
    /\ []((cstate = "live" /\ ~hasSnapshot)
            => \A i \in 1..Len(trace) :
                 Sub(trace[i]) \notin {<<"config">>, <<"from">>})
    /\ [][(cstate = "live" /\ ~hasSnapshot) => ~hasSnapshot']_vars

\* run has returned on a handle without snapshot after two assignments
C15_Witness ==
    /\ cstate = "live" /\ ~hasSnapshot
    /\ op = "run" /\ pc = "idle" /\ result = "ok"
    /\ nassign = 2

\* the value of a sub-field of the external config, `empty` when the config
\* is absent or the sub-field is absent or null
SubField(info, k, empty) == IF info.Config /\ info[k] # No THEN The(info[k]) ELSE empty

\* C16: Container(image) issues `buildah from` first and `buildah inspect`
\* second and no `buildah config`; when it has succeeded the live attrs are
\* the parsed external config, an absent or null sub-field giving the empty
\* dict, list, set or string, and the snapshot equals the live attrs
C16_CreateInitializes ==
    /\ [](op = "create" =>
            /\ Len(trace) \in {1, 2}
            /\ Sub(trace[1]) = <<"from">>
            /\ Len(trace) = 2 => (trace[1].rc = 0 /\ trace[2].argv = InspectArgv))
    /\ [][(pc = "init_inspect" /\ result' = "ok") =>
            LET info == The(retval')
                env == SubField(info, "Env", <<>>)
            IN /\ Len(trace') = 2 /\ trace'[2].rc = 0
               /\ cstate' = "live" /\ hasSnapshot' /\ snapshot' = self'
               /\ DOMAIN self'.environ = {SplitEq(env[i])[1] : i \in 1..Len(env)}
               /\ \A i \in 1..Len(env) :
                    self'.environ[SplitEq(env[i])[1]] = SplitEq(env[i])[2]
               /\ self'.command = SubField(info, "Cmd", <<>>)
               /\ self'.entrypoint = SubField(info, "Entrypoint", <<>>)
               /\ self'.labels = SubField(info, "Labels", Dict0)
               /\ self'.volumes = DOMAIN SubField(info, "Volumes", Dict0)
               /\ self'.workdir = SubField(info, "WorkingDir", <<>>)
               /\ (info.Config /\ info.Env = Some(<<(<<"A", "=", "1">>)>>))
                    => self'.environ = (<<"A">> :> <<"1">>)]_vars

\* a creation with mounts has succeeded on a config that has every
\* sub-field but the entrypoint
C16_Witness ==
    /\ op = "create" /\ pc = "idle" /\ result = "ok" /\ nassign = 0
    /\ opts.mounts # <<>>
    /\ self.labels = (<<"L">> :> <<"1">>) /\ self.entrypoint = <<>>
    /\ self.volumes = {<<"/v">>}

\* the argv the options of a call stand for, whatever the method
ExpectedRunArgv(kw) ==
    IF kw.user = No
    THEN <<(<<"run">>), (<<"--">>), ContainerId, (<<"echo">>), (<<"hi">>)>>
    ELSE <<(<<"run">>), (<<"--user">>), (<<"u">>),
           (<<"--volume">>), (<<"/a", ":", "/b">>),
           (<<"--volume">>), (<<"/h", ":", "/c">>),
           (<<"--mount">>), (<<"type", "=", "bind", ",", "src", "=", "/s">>),
           (<<"--terminal">>),
           (<<"--">>), ContainerId, (<<"echo">>), (<<"hi">>)>>

AssignInFlight(f, v) ==
    /\ pc = "config" /\ cstate = "live"
    /\ nassign < MaxAssign
    /\ self' = [self EXCEPT ![f] = v]
    /\ nassign' = nassign + 1
    /\ muts' = muts + 1
    /\ hist' = <<>>
    /\ UNCHANGED <<cstate, hasSnapshot, snapshot, pc, op, opts, trace, result,
                   retval, dirty, ImageSide>>

NextConc ==
    \/ Next
    \/ \E f \in Fields : \E v \in AssignValues(f) : AssignInFlight(f, v)

SpecConc == Init /\ [][NextConc]_vars

\* C18 (as claimed): the snapshot taken after a config command that exited
\* with 0 differs from the snapshot before it by what the command carried,
\* also when an attr was assigned while the command was in flight
C18_SnapshotIsWhatWasSent ==
    [][(pc = "config" /\ pc' = "main")
         => ArgsOf(trace[Len(trace)]) \in ProduceConfigArgs(snapshot', snapshot)]_vars

\* C19 (as claimed): when Container(image) has returned to its caller after
\* `buildah from` exited with 0, the caller has the live handle or a
\* `buildah rm` was issued for the new container
C19_CreateLeaksNothing ==
    (op = "create" /\ pc = "idle" /\ trace[1].rc = 0)
        => (cstate = "live" /\ result = "ok") \/ HasSub(trace, <<"rm">>)

\* C20 (as claimed): the list _produce_config_args returns for a snapshot
\* and live attrs is returned for no other change of the volumes: whatever
\* snapshot and live volumes give the same list have the same added and the
\* same removed volumes
C20_ArgsDetermineChange ==
    args_out # No =>
        \A sv \in SUBSET VolumePaths, lv \in SUBSET VolumePaths :
            The(args_out) \in ProduceConfigArgs([self EXCEPT !.volumes = lv],
                                                [snapshot EXCEPT !.volumes = sv])
                => /\ lv \ sv = self.volumes \ snapshot.volumes
                   /\ sv \ lv = snapshot.volumes \ self.volumes

====
